---- MODULE Spec2Model ----
(***************************************************************************)
(* Model of the document pipeline of the compliance chatbot:               *)
(*   src/models/document_processor.py  (GeminiEmbeddings,                  *)
(*                                      DocumentProcessor)                 *)
(*   src/models/chatbot.py             (ComplianceChatbot)                 *)
(* of its users table:                                                     *)
(*   src/database/user_auth.py, src/database/user_management.py            *)
(* and of the session state and navigation of src/app.py, one step per     *)
(* script run that a form or a button starts.                              *)
(*                                                                         *)
(* A file name is a sequence of tokens (<<"a", ".pdf">>), so that the      *)
(* extension test and the appended ".pdf" of process_pdf are computed.     *)
(* An extracted text is a run of `len` characters without separators (or   *)
(* of whitespace only when `blank`), so that the splitter cuts it into     *)
(* windows of chunk_size characters that overlap by chunk_overlap; a text  *)
(* with `paras` is a sequence of paragraphs of the given lengths, which    *)
(* the splitter merges into chunks.                                        *)
(* A chunk is the span [lo, hi) of a named text.                           *)
(* The metadata dict is a sequence of entries in insertion order; the      *)
(* fields uploaded_at and file_path are not modelled (file_path is         *)
(* pdf_dir/filename and nothing reads uploaded_at in these classes).       *)
(*                                                                         *)
(* Failures: a PDF may be unreadable or without text; inside the try block *)
(* of process_pdf the file write, add_texts and save_local may raise; the  *)
(* store may raise on a search; json.load and FAISS.load_local may fail on *)
(* construction. _save_metadata, and the os.remove, from_texts and         *)
(* save_local calls of delete_document and _rebuild_vector_store, which    *)
(* no handler covers, are taken to succeed; the rebuild of a document      *)
(* raises exactly when its file is unreadable.                             *)
(***************************************************************************)
EXTENDS Integers, Sequences, FiniteSets, TLC

VARIABLES
    files,          \* pdf_dir: file name -> PDF content, for the files that exist
    metadata,       \* self.metadata["documents"], in insertion order
    vector_store,   \* self.vector_store: the entries of the docstore, in insertion order
    diskMetadata,   \* document_metadata.json
    diskIndex,      \* vector_dir as written by save_local
    uuidCount,      \* number of uuid4 values drawn so far
    chat_history,   \* ComplianceChatbot.chat_history
    ret,            \* the last call: its name, arguments, return value and gateway calls
    deleted,        \* history: the file names of the documents deleted since the last
                    \* process_pdf call
    exchanges,      \* history: the (query, answer) pairs answered by this chatbot since
                    \* it was built or last reset, oldest first
    pending,        \* the process_pdf call that has run add_texts and not yet save_local
                    \* (<<>> when there is none), in the specification where calls of
                    \* two sessions interleave
    users,          \* the users table: id -> [username, password_hash, is_admin]
    userSeq,        \* the SERIAL sequence of users.id: the last id handed out
    session         \* st.session_state of one browser session: user, current_tab, and
                    \* the page the last script run rendered

vars == <<files, metadata, vector_store, diskMetadata, diskIndex, uuidCount, chat_history,
          ret, deleted, exchanges, pending, users, userSeq, session>>

\* the state outside the DocumentProcessor and the chatbot
appVars == <<users, userSeq, session>>

(*************************** bounds ***************************************)
\* process_pdf calls in a run (each draws one uuid4)
MaxUploads == 2
\* exchanges kept in chat_history before generate_response is no longer called
MaxExchanges == 1
\* exchanges answered since the last reset, in the specification of a long dialogue
MaxAnswered == 11
\* texts passed to one embed_documents call
MaxTexts == 3

\* the rows the users table ever receives (the ids its SERIAL column hands out)
MaxUsers == 3

(*************************** program constants ****************************)
chunk_size == 1000
chunk_overlap == 100
HistoryCap == 20
\* length of the vectors GeminiEmbeddings returns when the remote call fails
EmbedDim == 768

PLACEHOLDER == "placeholder"

Min(a, b) == IF a < b THEN a ELSE b

\* str(uuid.uuid4()): the n-th value drawn; all values are distinct
UuidPool == <<"u1", "u2", "u3", "u4", "u5", "u6">>
Uuid(n) == UuidPool[n]

(*************************** inputs ***************************************)
\* file names given by the caller (the upload form passes uploaded_file.name)
Filenames == {<<"a">>, <<"a", ".pdf">>, <<"b", ".PDF">>}

\* uploaded PDFs, by what PdfReader makes of them
Pdfs ==
    { [name |-> "corrupt", readable |-> FALSE, blank |-> TRUE,  len |-> 0],
      [name |-> "scan",    readable |-> TRUE,  blank |-> TRUE,  len |-> 0],
      [name |-> "spaces",  readable |-> TRUE,  blank |-> TRUE,  len |-> 7],
      [name |-> "memo",    readable |-> TRUE,  blank |-> FALSE, len |-> 640],
      [name |-> "policy",  readable |-> TRUE,  blank |-> FALSE, len |-> 1001] }

\* the uploads of the specification of a long document: two texts of 2500 characters,
\* one without separators and one of four paragraphs of 625 characters, and a text of
\* 1100 characters in paragraphs of 100, under a name of their own or under one given
\* name
ManualFilenames == {<<>>, <<"manual", ".pdf">>}
ManualPdfs ==
    { [name |-> "manual", readable |-> TRUE, blank |-> FALSE, len |-> 2500,
       paras |-> <<2500>>],
      [name |-> "chapters", readable |-> TRUE, blank |-> FALSE, len |-> 2500,
       paras |-> <<625, 625, 625, 625>>],
      [name |-> "notes", readable |-> TRUE, blank |-> FALSE, len |-> 1100,
       paras |-> <<100, 100, 100, 100, 100, 100, 100, 100, 100, 100, 100>>] }

\* the uploads of the chatbot's specification: no filename given (<<>>), so that each
\* is stored under its own generated name
ChatFilenames == {<<>>}
ChatPdfs == {pdf \in Pdfs : pdf.name \in {"memo", "policy"}}

Queries == {"q1", "q2"}
\* values of k passed to search_documents / generate_response
Ks == {0, 1, 2}
\* the questions put to the chatbot, and the texts the remote model answers with
ChatQueries == {"q1"}
Answers == {"a1", "a2"}

(*************************** helpers **************************************)
\* FAISS.from_texts(["placeholder content"], ..., metadatas=[{"source": "placeholder",
\* "doc_id": "placeholder"}]): a store holding the reserved entry alone
PlaceholderEntry ==
    [doc_id |-> PLACEHOLDER, source |-> <<PLACEHOLDER>>,
     chunk |-> [text |-> "placeholder content", lo |-> 0, hi |-> 19]]

FromTexts == <<PlaceholderEntry>>

\* str.lower() on the last token of a file name
Lower(tok) == IF tok = ".PDF" THEN ".pdf" ELSE tok

\* filename.lower().endswith('.pdf')
EndsWithPdf(filename) ==
    Len(filename) > 0 /\ Lower(filename[Len(filename)]) = ".pdf"

\* process_pdf: the name the upload is stored under
NormalizeFilename(filename, doc_id) ==
    IF filename = <<>> THEN <<doc_id, ".pdf">>
    ELSE IF EndsWithPdf(filename) THEN filename
    ELSE filename \o <<".pdf">>

\* mutant: the text is tested without strip()
IsBlank_NoStrip(pdf) == pdf.len = 0

\* not raw_text.strip()
IsBlank(pdf) == pdf.blank \/ pdf.len = 0

\* mutant: the text is not split
Windows_Unsplit(lo, n) == << <<lo, n>> >>

\* RecursiveCharacterTextSplitter(chunk_size, chunk_overlap).split_text on a text
\* without separators: windows [lo, hi) of chunk_size characters, each starting
\* chunk_overlap characters before the end of the previous one
RECURSIVE Windows(_, _)
Windows(lo, n) ==
    IF n - lo <= chunk_size THEN << <<lo, n>> >>
    ELSE << <<lo, lo + chunk_size>> >> \o Windows(lo + chunk_size - chunk_overlap, n)

\* the pieces the splitter finds in the text of a PDF: its paragraphs (each with the
\* separator that precedes it) when paras is given, else the text in one piece
Pieces(pdf) == IF "paras" \in DOMAIN pdf THEN pdf.paras ELSE <<pdf.len>>

\* the characters in pieces a .. b - 1
RECURSIVE SumPieces(_, _, _)
SumPieces(pieces, a, b) ==
    IF a >= b THEN 0 ELSE pieces[a] + SumPieces(pieces, a + 1, b)

\* the splitter's merge of pieces shorter than chunk_size: pieces a .. j - 1 are the
\* chunk being filled. When piece j no longer fits the chunk is closed, and pieces are
\* dropped from its front until at most chunk_overlap characters are kept and piece j
\* fits; these start the next chunk.
RECURSIVE KeepFrom(_, _, _)
KeepFrom(pieces, a, j) ==
    LET total == SumPieces(pieces, a, j)
    IN IF total > chunk_overlap \/ (total + pieces[j] > chunk_size /\ total > 0)
       THEN KeepFrom(pieces, a + 1, j)
       ELSE a

RECURSIVE MergeSplits(_, _, _)
MergeSplits(pieces, a, j) ==
    LET span == <<SumPieces(pieces, 1, a), SumPieces(pieces, 1, j)>>
    IN IF j > Len(pieces) THEN (IF a < j THEN <<span>> ELSE <<>>)
       ELSE IF a < j /\ SumPieces(pieces, a, j) + pieces[j] > chunk_size
       THEN <<span>> \o MergeSplits(pieces, KeepFrom(pieces, a, j), j + 1)
       ELSE MergeSplits(pieces, a, j + 1)

\* text_splitter.split_text(raw_text): a text in one piece is cut by size alone, a text
\* of several pieces (each shorter than chunk_size) by merging its pieces
split_text(pdf) ==
    LET w == IF Len(Pieces(pdf)) = 1 THEN Windows(0, pdf.len)
             ELSE MergeSplits(Pieces(pdf), 1, 1)
    IN [i \in 1..Len(w) |-> [text |-> pdf.name, lo |-> w[i][1], hi |-> w[i][2]]]

\* vector_store.add_texts(chunks, metadatas) with
\* metadatas = [{"source": filename, "doc_id": doc_id} for _ in chunks]
add_texts(store, chunks, filename, doc_id) ==
    store \o [i \in 1..Len(chunks) |->
                [doc_id |-> doc_id, source |-> filename, chunk |-> chunks[i]]]

\* open(pdf_path, "wb").write(...): the file is created or overwritten
WriteFile(fs, filename, pdf) ==
    [f \in DOMAIN fs \cup {filename} |-> IF f = filename THEN pdf ELSE fs[f]]

\* mutant: the file is left on disk
RemoveFile_Kept(fs, filename) == fs

\* os.remove(pdf_path) when os.path.exists(pdf_path)
RemoveFile(fs, filename) ==
    [f \in DOMAIN fs \ {filename} |-> fs[f]]

\* the keys of the metadata dict
DocIds(meta) == {meta[i].doc_id : i \in 1..Len(meta)}

\* position of doc_id in the metadata dict (0 when absent)
IndexOf(meta, doc_id) ==
    IF doc_id \in DocIds(meta)
    THEN CHOOSE i \in 1..Len(meta) : meta[i].doc_id = doc_id
    ELSE 0

\* get_all_documents(): the metadata dict itself, doc_id -> entry
get_all_documents(meta) == meta

\* del self.metadata["documents"][doc_id]
DelDoc(meta, doc_id) ==
    LET p == IndexOf(meta, doc_id)
    IN SubSeq(meta, 1, p - 1) \o SubSeq(meta, p + 1, Len(meta))

\* mutant: the loop ends at the first document that cannot be indexed
RECURSIVE RebuildLoop_Aborts(_, _, _, _)
RebuildLoop_Aborts(i, st, meta, fs) ==
    IF i > Len(meta) THEN [store |-> st, meta |-> meta]
    ELSE LET d == meta[i] IN
         IF d.filename \notin DOMAIN fs \/ ~fs[d.filename].readable
            \/ IsBlank(fs[d.filename])
         THEN [store |-> st, meta |-> meta]
         ELSE LET chunks == split_text(fs[d.filename]) IN
              RebuildLoop_Aborts(i + 1,
                                 add_texts(st, chunks, d.filename, d.doc_id),
                                 [meta EXCEPT ![i].chunk_count = Len(chunks)],
                                 fs)

\* the loop of _rebuild_vector_store over self.metadata["documents"].items(),
\* from entry i on; st is the store and meta the metadata built so far
RECURSIVE RebuildLoop(_, _, _, _)
RebuildLoop(i, st, meta, fs) ==
    IF i > Len(meta) THEN [store |-> st, meta |-> meta]
    ELSE LET d == meta[i] IN
         IF d.filename \notin DOMAIN fs THEN RebuildLoop(i + 1, st, meta, fs)
         ELSE LET pdf == fs[d.filename] IN
              IF ~pdf.readable THEN RebuildLoop(i + 1, st, meta, fs)
              ELSE IF IsBlank(pdf) THEN RebuildLoop(i + 1, st, meta, fs)
              ELSE LET chunks == split_text(pdf) IN
                   RebuildLoop(i + 1,
                               add_texts(st, chunks, d.filename, d.doc_id),
                               [meta EXCEPT ![i].chunk_count = Len(chunks)],
                               fs)

\* mutant: the rebuild starts from a store without the placeholder
Rebuilt_NoPlaceholder(meta, fs) == RebuildLoop(1, <<>>, meta, fs)

\* mutant: the rebuild adds to the store it finds instead of starting from a new one
Rebuilt_NoReset(meta, fs) == RebuildLoop(1, vector_store, meta, fs)

\* _rebuild_vector_store: the store and metadata it leaves
Rebuilt(meta, fs) == RebuildLoop(1, FromTexts, meta, fs)

(*************************** users table **********************************)
\* the user names and passwords typed into the forms
Usernames == {"admin", "bob", "eve"}
Passwords == {"admin", "pw"}

\* the ways a database call goes wrong: "connect" = get_db_connection returns None,
\* "execute" = a statement raises before the commit
DbFaults == {"none", "connect", "execute"}

\* st.session_state.user before a login
NoUser == [id |-> 0]

\* hash_password: SHA-256 of password + salt; equal for equal password and salt
hash_password(password, salt) == <<"sha256", password, salt>>

\* one row of the users table; the salt is a fresh uuid4, here the row's id
UserRow(id, username, password, is_admin) ==
    [username |-> username, password_hash |-> hash_password(password, id),
     salt |-> id, is_admin |-> is_admin]

\* the table after initialize_database: create_initial_admin registered admin/admin
InitialUsers == (1 :> UserRow(1, "admin", "admin", TRUE))

\* SELECT COUNT(*) FROM users WHERE is_admin = TRUE
AdminCount(tbl) == Cardinality({i \in DOMAIN tbl : tbl[i].is_admin})

\* DELETE FROM users WHERE id = user_id
DeleteRow(tbl, user_id) == [i \in DOMAIN tbl \ {user_id} |-> tbl[i]]

\* UPDATE users SET is_admin = ... WHERE id = user_id (no row, no change)
UpdateRow(tbl, user_id, is_admin) ==
    [i \in DOMAIN tbl |-> IF i = user_id THEN [tbl[i] EXCEPT !.is_admin = is_admin]
                                         ELSE tbl[i]]

\* delete_user without its last-admin check
DeleteUser_NoLastAdminCheck(tbl, user_id, fault) ==
    IF fault = "connect"
    THEN [value |-> FALSE, message |-> "Database connection error", table |-> tbl]
    ELSE IF fault = "execute"
    THEN [value |-> FALSE, message |-> "Error deleting user", table |-> tbl]
    ELSE IF user_id \notin DOMAIN tbl
    THEN [value |-> FALSE, message |-> "User not found", table |-> tbl]
    ELSE [value |-> TRUE, message |-> "User deleted successfully",
          table |-> DeleteRow(tbl, user_id)]

\* delete_user: its return value, its message and the table it leaves
DeleteUser(tbl, user_id, fault) ==
    IF fault = "connect"
    THEN [value |-> FALSE, message |-> "Database connection error", table |-> tbl]
    ELSE IF fault = "execute"
    THEN [value |-> FALSE, message |-> "Error deleting user", table |-> tbl]
    ELSE IF user_id \notin DOMAIN tbl
    THEN [value |-> FALSE, message |-> "User not found", table |-> tbl]
    ELSE IF tbl[user_id].is_admin /\ AdminCount(tbl) <= 1
    THEN [value |-> FALSE, message |-> "Cannot delete the last admin user",
          table |-> tbl]
    ELSE [value |-> TRUE, message |-> "User deleted successfully",
          table |-> DeleteRow(tbl, user_id)]

\* update_user_admin_status: the checks run only when the privilege is revoked
UpdateUserAdminStatus(tbl, user_id, is_admin, fault) ==
    IF fault = "connect"
    THEN [value |-> FALSE, message |-> "Database connection error", table |-> tbl]
    ELSE IF fault = "execute"
    THEN [value |-> FALSE, message |-> "Error updating user", table |-> tbl]
    ELSE IF ~is_admin /\ user_id \notin DOMAIN tbl
    THEN [value |-> FALSE, message |-> "User not found", table |-> tbl]
    ELSE IF ~is_admin /\ tbl[user_id].is_admin /\ AdminCount(tbl) <= 1
    THEN [value |-> FALSE,
          message |-> "Cannot remove admin privileges from the last admin user",
          table |-> tbl]
    ELSE [value |-> TRUE,
          message |-> IF is_admin THEN "Admin privileges granted successfully"
                                  ELSE "Admin privileges revoked successfully",
          table |-> UpdateRow(tbl, user_id, is_admin)]

\* the variables of the DocumentProcessor and the chatbot
docVars == <<files, metadata, vector_store, diskMetadata, diskIndex, uuidCount,
             chat_history, deleted, exchanges, pending>>

\* register_user(username, password, is_admin)
register_user(username, password, is_admin, fault) ==
    LET taken == \E i \in DOMAIN users : users[i].username = username
        ok    == fault = "none" /\ ~taken
    IN /\ ok => userSeq < MaxUsers
       /\ users' = IF ok THEN (userSeq + 1 :> UserRow(userSeq + 1, username, password,
                                                      is_admin)) @@ users
                         ELSE users
       /\ userSeq' = IF ok THEN userSeq + 1 ELSE userSeq
       /\ ret' = [op |-> "register_user",
                  args |-> [username |-> username, is_admin |-> is_admin],
                  value |-> ok,
                  message |-> IF fault = "connect" THEN "Database connection error"
                              ELSE IF fault = "execute" THEN "Error"
                              ELSE IF taken THEN "Username already exists"
                              ELSE "User registered successfully"]
       /\ UNCHANGED <<docVars, session>>

\* delete_user(user_id)
delete_user(user_id, fault) ==
    LET d == DeleteUser(users, user_id, fault)
    IN /\ users' = d.table
       /\ ret' = [op |-> "delete_user", args |-> [user_id |-> user_id],
                  value |-> d.value, message |-> d.message]
       /\ UNCHANGED <<docVars, userSeq, session>>

\* update_user_admin_status(user_id, is_admin)
update_user_admin_status(user_id, is_admin, fault) ==
    LET u == UpdateUserAdminStatus(users, user_id, is_admin, fault)
    IN /\ users' = u.table
       /\ ret' = [op |-> "update_user_admin_status",
                  args |-> [user_id |-> user_id, is_admin |-> is_admin],
                  value |-> u.value, message |-> u.message]
       /\ UNCHANGED <<docVars, userSeq, session>>

(*************************** app.py: session and navigation ***************)
\* what is typed into the login form: a field may be left empty
LoginUsernames == Usernames \cup {""}
LoginPasswords == Passwords \cup {""}

\* the ways authenticate_user's database call goes wrong
LoginFaults == {"none", "connect"}

\* authenticate_user: the row of that username, its salted hash compared
Authenticate(tbl, username, password, fault) ==
    IF fault # "none"
    THEN [value |-> FALSE, user_data |-> NoUser]
    ELSE IF ~\E i \in DOMAIN tbl : tbl[i].username = username
    THEN [value |-> FALSE, user_data |-> NoUser]
    ELSE LET i == CHOOSE j \in DOMAIN tbl : tbl[j].username = username
         IN IF hash_password(password, tbl[i].salt) = tbl[i].password_hash
            THEN [value |-> TRUE,
                  user_data |-> [id |-> i, username |-> username,
                                 is_admin |-> tbl[i].is_admin]]
            ELSE [value |-> FALSE, user_data |-> NoUser]

\* st.session_state.user is set and its is_admin is true
SessionAdmin(sess) == sess.user # NoUser /\ sess.user.is_admin

\* the main content area of one script run: the page drawn for current_tab, and
\* current_tab set to the page drawn when the tab is not allowed
Render(sess) ==
    IF sess.current_tab = "login"
    THEN [user |-> sess.user, current_tab |-> sess.current_tab, page |-> "login"]
    ELSE IF sess.current_tab = "chat"
    THEN [user |-> sess.user, current_tab |-> sess.current_tab, page |-> "chat"]
    ELSE IF sess.current_tab = "documents" /\ SessionAdmin(sess)
    THEN [user |-> sess.user, current_tab |-> sess.current_tab, page |-> "documents"]
    ELSE IF sess.current_tab = "users" /\ SessionAdmin(sess)
    THEN [user |-> sess.user, current_tab |-> sess.current_tab, page |-> "users"]
    ELSE IF sess.user # NoUser
    THEN [user |-> sess.user, current_tab |-> "chat", page |-> "chat"]
    ELSE [user |-> sess.user, current_tab |-> "login", page |-> "login"]

\* the Logout button with the tab left as it was
Logout_KeepsTab(sess) == [user |-> NoUser, current_tab |-> sess.current_tab]

\* the Logout button's handler
Logout(sess) == [user |-> NoUser, current_tab |-> "login"]

\* the login form's handler after a successful authenticate_user
LoggedIn(sess, user_data) == [user |-> user_data, current_tab |-> "chat"]

\* a navigation button's handler
Navigate(sess, tab) == [user |-> sess.user, current_tab |-> tab]

\* the Login form submitted: drawn on the login page only
login(username, password, fault) ==
    LET filled == username # "" /\ password # ""
        a      == IF filled THEN Authenticate(users, username, password, fault)
                            ELSE [value |-> FALSE, user_data |-> NoUser]
    IN /\ session.page = "login"
       /\ session' = IF a.value THEN Render(LoggedIn(session, a.user_data))
                                ELSE session
       /\ ret' = [op |-> "login", args |-> [username |-> username],
                  value |-> a.value]
       /\ UNCHANGED <<docVars, users, userSeq>>

\* the Logout button: drawn in the sidebar while a user is logged in
logout ==
    /\ session.user # NoUser
    /\ session' = Render(Logout(session))
    /\ ret' = [op |-> "logout"]
    /\ UNCHANGED <<docVars, users, userSeq>>

\* the Chat Interface button: drawn while a user is logged in
nav_chat ==
    /\ session.user # NoUser
    /\ session' = Render(Navigate(session, "chat"))
    /\ ret' = [op |-> "nav_chat"]
    /\ UNCHANGED <<docVars, users, userSeq>>

\* the Document Management button: drawn for an admin only
nav_docs ==
    /\ SessionAdmin(session)
    /\ session' = Render(Navigate(session, "documents"))
    /\ ret' = [op |-> "nav_docs"]
    /\ UNCHANGED <<docVars, users, userSeq>>

\* the User Management button: drawn for an admin only
nav_users ==
    /\ SessionAdmin(session)
    /\ session' = Render(Navigate(session, "users"))
    /\ ret' = [op |-> "nav_users"]
    /\ UNCHANGED <<docVars, users, userSeq>>

(*************************** initial state ********************************)
\* DocumentProcessor("data") on an empty data directory, then ComplianceChatbot:
\* no metadata file, no index.faiss, so the store is the placeholder alone,
\* _ensure_vector_store_populated rebuilds and both are saved
Init ==
    /\ files = <<>>
    /\ metadata = <<>>
    /\ vector_store = FromTexts
    /\ diskMetadata = <<>>
    /\ diskIndex = FromTexts
    /\ uuidCount = 0
    /\ chat_history = <<>>
    /\ ret = [op |-> "init", loaded |-> [meta |-> <<>>, store |-> FromTexts],
              rebuilt |-> TRUE]
    /\ deleted = {}
    /\ exchanges = <<>>
    /\ pending = <<>>
    /\ users = InitialUsers
    /\ userSeq = 1
    /\ session = Render([user |-> NoUser, current_tab |-> "login"])

(*************************** GeminiEmbeddings *****************************)
\* the texts handed to the embedding gateway
EmbedTexts == {"t1", "t2", "t3"}

\* the lists of at most MaxTexts texts
TextLists == UNION {[1..n -> EmbedTexts] : n \in 0..MaxTexts}

\* [0.0] * 768
ZeroVector == [i \in 1..EmbedDim |-> 0]

\* genai.embed_content(...)['embedding'] when the call succeeds: a vector that is
\* decided by the text alone
RemoteEmbedding(text) ==
    [i \in 1..EmbedDim |-> CASE text = "t1" -> 1 [] text = "t2" -> 2 [] OTHER -> 3]

\* mutant: the embeddings gathered before the failure are kept
EmbedDocuments_KeepsEarlier(texts, fail_at) ==
    [value |-> [i \in 1..Len(texts) |->
                   IF fail_at = 0 \/ i < fail_at THEN RemoteEmbedding(texts[i])
                   ELSE ZeroVector],
     calls |-> IF fail_at = 0 THEN Len(texts) ELSE fail_at,
     failed |-> fail_at # 0]

\* embed_documents(texts): fail_at is the position of the text on which the remote
\* call raises (0: none does). The list returned, the remote calls made, and whether
\* the except branch was taken
EmbedDocuments(texts, fail_at) ==
    IF fail_at = 0
    THEN [value |-> [i \in 1..Len(texts) |-> RemoteEmbedding(texts[i])],
          calls |-> Len(texts), failed |-> FALSE]
    ELSE [value |-> [i \in 1..Len(texts) |-> ZeroVector],
          calls |-> fail_at, failed |-> TRUE]

\* embed_query(text)
EmbedQuery(text, fails) ==
    IF fails THEN [value |-> ZeroVector, calls |-> 1, failed |-> TRUE]
    ELSE [value |-> RemoteEmbedding(text), calls |-> 1, failed |-> FALSE]

embed_documents(texts, fail_at) ==
    LET e == EmbedDocuments(texts, fail_at)
    IN /\ ret' = [op |-> "embed_documents", args |-> [texts |-> texts],
                  value |-> e.value, calls |-> e.calls, failed |-> e.failed]
       /\ UNCHANGED <<files, metadata, vector_store, diskMetadata, diskIndex,
                      uuidCount, chat_history, deleted, exchanges, pending>>
       /\ UNCHANGED appVars

embed_query(text, fails) ==
    LET e == EmbedQuery(text, fails)
    IN /\ ret' = [op |-> "embed_query", args |-> [text |-> text],
                  value |-> e.value, calls |-> e.calls, failed |-> e.failed]
       /\ UNCHANGED <<files, metadata, vector_store, diskMetadata, diskIndex,
                      uuidCount, chat_history, deleted, exchanges, pending>>
       /\ UNCHANGED appVars

(*************************** DocumentProcessor ****************************)
\* what may go wrong inside the try block of process_pdf besides the PDF itself:
\* the file cannot be written, add_texts raises, save_local raises
Faults == {"none", "write", "add_texts", "save_local"}

\* mutant: the entry counts the document, not its chunks
DocumentEntry_CountsOne(doc_id, filename, chunks) ==
    [doc_id |-> doc_id, filename |-> filename, chunk_count |-> 1]

\* self.metadata["documents"][doc_id] = {"filename": ..., "chunk_count": len(chunks), ...}
DocumentEntry(doc_id, filename, chunks) ==
    [doc_id |-> doc_id, filename |-> filename, chunk_count |-> Len(chunks)]

\* process_pdf(pdf_file, filename)
process_pdf(filename, pdf, fault) ==
    LET doc_id == Uuid(uuidCount + 1)
        fname  == NormalizeFilename(filename, doc_id)
        chunks == split_text(pdf)
        saved  == fault # "write"
        added  == saved /\ pdf.readable /\ ~IsBlank(pdf) /\ fault # "add_texts"
        ok     == added /\ fault # "save_local"
    IN /\ uuidCount < MaxUploads
       /\ uuidCount' = uuidCount + 1
       /\ files' = IF saved THEN WriteFile(files, fname, pdf) ELSE files
       /\ vector_store' = IF added THEN add_texts(vector_store, chunks, fname, doc_id)
                          ELSE vector_store
       /\ diskIndex' = IF ok THEN vector_store' ELSE diskIndex
       /\ metadata' = IF ok THEN Append(metadata, DocumentEntry(doc_id, fname, chunks))
                      ELSE metadata
       /\ diskMetadata' = IF ok THEN metadata' ELSE diskMetadata
       /\ ret' = [op |-> "process_pdf",
                  args |-> [filename |-> fname, pdf |-> pdf],
                  doc_id |-> doc_id, value |-> ok]
       /\ deleted' = {}
       /\ UNCHANGED <<chat_history, exchanges, pending>>
       /\ UNCHANGED appVars

\* process_pdf as two steps of one session, between which calls of another session
\* can run: the shared DocumentProcessor (st.cache_resource) has no lock.
\* First step, up to add_texts: the chunks are added to the store that
\* self.vector_store names at that moment; a PDF that cannot be indexed ends the call
process_pdf_add(filename, pdf) ==
    LET doc_id == Uuid(uuidCount + 1)
        fname  == NormalizeFilename(filename, doc_id)
        chunks == split_text(pdf)
        added  == pdf.readable /\ ~IsBlank(pdf)
    IN /\ pending = <<>>
       /\ uuidCount < MaxUploads
       /\ uuidCount' = uuidCount + 1
       /\ files' = WriteFile(files, fname, pdf)
       /\ vector_store' = IF added THEN add_texts(vector_store, chunks, fname, doc_id)
                          ELSE vector_store
       /\ pending' = IF added
                     THEN << [doc_id |-> doc_id, filename |-> fname, pdf |-> pdf,
                              chunks |-> chunks, overtaken |-> FALSE] >>
                     ELSE <<>>
       /\ ret' = IF added
                 THEN [op |-> "process_pdf_add",
                       args |-> [filename |-> fname, pdf |-> pdf], doc_id |-> doc_id]
                 ELSE [op |-> "process_pdf",
                       args |-> [filename |-> fname, pdf |-> pdf],
                       doc_id |-> doc_id, value |-> FALSE, overtaken |-> FALSE]
       /\ deleted' = {}
       /\ UNCHANGED <<metadata, diskMetadata, diskIndex, chat_history, exchanges>>
       /\ UNCHANGED appVars

\* Second step, from save_local on: the store self.vector_store names now is saved and
\* the metadata entry is written. overtaken: the store was replaced in between
process_pdf_commit ==
    /\ pending # <<>>
    /\ LET p == pending[1]
       IN /\ diskIndex' = vector_store
          /\ metadata' = Append(metadata, DocumentEntry(p.doc_id, p.filename, p.chunks))
          /\ diskMetadata' = metadata'
          /\ ret' = [op |-> "process_pdf",
                     args |-> [filename |-> p.filename, pdf |-> p.pdf],
                     doc_id |-> p.doc_id, value |-> TRUE, overtaken |-> p.overtaken]
    /\ pending' = <<>>
    /\ UNCHANGED <<files, vector_store, uuidCount, chat_history, deleted, exchanges>>
    /\ UNCHANGED appVars

\* self.vector_store = FAISS.from_texts(...) while a process_pdf call is between its
\* two steps: the chunks that call added are in the store that was replaced
Overtaken(p) == [i \in DOMAIN p |-> [p[i] EXCEPT !.overtaken = TRUE]]

\* _rebuild_vector_store(); repeated: the call before was a rebuild too
rebuild_vector_store ==
    LET r == Rebuilt(metadata, files)
    IN /\ vector_store' = r.store
       /\ metadata' = r.meta
       /\ diskIndex' = r.store
       /\ diskMetadata' = r.meta
       /\ ret' = [op |-> "rebuild", repeated |-> ret.op = "rebuild"]
       /\ pending' = Overtaken(pending)
       /\ UNCHANGED <<files, uuidCount, chat_history, deleted, exchanges>>
       /\ UNCHANGED appVars

\* a PDF disappears from pdf_dir without the DocumentProcessor being called (the case
\* the os.path.exists tests of _rebuild_vector_store and delete_document provide for)
unlink(filename) ==
    /\ filename \in DOMAIN files
    /\ files' = RemoveFile(files, filename)
    /\ ret' = [op |-> "unlink", args |-> [filename |-> filename]]
    /\ UNCHANGED <<metadata, vector_store, diskMetadata, diskIndex, uuidCount,
                   chat_history, deleted, exchanges, pending>>
    /\ UNCHANGED appVars

\* mutant: the rebuild is run whether or not the doc_id is known
Deletion_AlwaysRebuilds(meta, store, fs, doc_id) ==
    IF doc_id \in DocIds(meta)
    THEN LET filename == meta[IndexOf(meta, doc_id)].filename
             left == RemoveFile(fs, filename)
             r == Rebuilt(DelDoc(meta, doc_id), left)
         IN [value |-> TRUE, filename |-> filename, files |-> left,
             meta |-> r.meta, store |-> r.store, saved |-> TRUE,
             chunk_count |-> meta[IndexOf(meta, doc_id)].chunk_count]
    ELSE [value |-> FALSE, filename |-> <<>>, files |-> fs,
          meta |-> Rebuilt(meta, fs).meta, store |-> Rebuilt(meta, fs).store,
          saved |-> TRUE, chunk_count |-> 0]

\* the body of delete_document: the value returned, the files, metadata and store it
\* leaves, whether it saved them (saved: _save_metadata and save_local were run), and
\* the chunk_count of the entry it removed (0 when there is none)
Deletion(meta, store, fs, doc_id) ==
    IF doc_id \in DocIds(meta)
    THEN LET filename == meta[IndexOf(meta, doc_id)].filename
             left == RemoveFile(fs, filename)
             r == Rebuilt(DelDoc(meta, doc_id), left)
         IN [value |-> TRUE, filename |-> filename, files |-> left,
             meta |-> r.meta, store |-> r.store, saved |-> TRUE,
             chunk_count |-> meta[IndexOf(meta, doc_id)].chunk_count]
    ELSE [value |-> FALSE, filename |-> <<>>, files |-> fs,
          meta |-> meta, store |-> store, saved |-> FALSE, chunk_count |-> 0]

\* delete_document(doc_id)
delete_document(doc_id) ==
    LET d == Deletion(metadata, vector_store, files, doc_id)
    IN /\ files' = d.files
       /\ metadata' = d.meta
       /\ vector_store' = d.store
       /\ diskMetadata' = IF d.saved THEN d.meta ELSE diskMetadata
       /\ diskIndex' = IF d.saved THEN d.store ELSE diskIndex
       /\ ret' = [op |-> "delete_document", args |-> [doc_id |-> doc_id],
                  filename |-> d.filename,
                  file_existed |-> d.value /\ d.filename \in DOMAIN files,
                  chunk_count |-> d.chunk_count,
                  value |-> d.value]
       /\ deleted' = IF d.value THEN deleted \cup {d.filename} ELSE deleted
       /\ pending' = IF d.saved THEN Overtaken(pending) ELSE pending
       /\ UNCHANGED <<uuidCount, chat_history, exchanges>>
       /\ UNCHANGED appVars

\* DocumentProcessor.__init__ in a new process, on the data directory as it is:
\* _load_metadata, _load_or_create_vector_store, _ensure_vector_store_populated.
\* metaOk / indexOk: whether json.load / FAISS.load_local succeed
NeedRebuild(meta, store, fs) ==
    \/ (Len(meta) = 0 /\ DOMAIN fs # {})
    \/ Len(store) <= 1
    \/ (Len(meta) > 0 /\ Len(store) < Len(meta) + 1)

construct(metaOk, indexOk) ==
    LET meta  == IF metaOk THEN diskMetadata ELSE <<>>
        store == IF indexOk THEN diskIndex ELSE FromTexts
        need  == NeedRebuild(meta, store, files)
        r     == Rebuilt(meta, files)
    IN /\ metadata' = IF need THEN r.meta ELSE meta
       /\ vector_store' = IF need THEN r.store ELSE store
       /\ diskMetadata' = IF need THEN r.meta ELSE diskMetadata
       /\ diskIndex' = IF need THEN r.store ELSE diskIndex
       /\ chat_history' = <<>>
       /\ exchanges' = <<>>
       /\ pending' = <<>>
       /\ ret' = [op |-> "init", loaded |-> [meta |-> meta, store |-> store],
                  rebuilt |-> need]
       /\ UNCHANGED <<files, uuidCount, deleted>>
       /\ UNCHANGED appVars

\* the orders in which similarity_search_with_score can return min(k, n) of the n
\* entries of the store: positions of the store, nearest first. The distances come
\* from the remote embedding of the query, so every order is possible.
Rankings(n, k) ==
    {h \in [1..Min(k, n) -> 1..n] : \A i, j \in DOMAIN h : i # j => h[i] # h[j]}

\* what the store does on a search: it answers with a ranking, or it raises
StoreOutcomes(n, k) ==
    [raises : {FALSE}, hits : Rankings(n, k)] \cup {[raises |-> TRUE, hits |-> <<>>]}

\* mutant: the results are returned unfiltered
FilterPlaceholder_None(results) == results

\* [(doc, score) for doc, score in results if doc.metadata.get('doc_id') != 'placeholder']
RECURSIVE FilterPlaceholder(_)
FilterPlaceholder(results) ==
    IF results = <<>> THEN <<>>
    ELSE LET rest == FilterPlaceholder(Tail(results))
         IN IF Head(results).doc.doc_id # PLACEHOLDER THEN <<Head(results)>> \o rest
            ELSE rest

\* mutant: the store is searched even when there are no documents
Search_NoEmptyCheck(meta, store, query, k, hits, raises) ==
    IF raises THEN [results |-> <<>>, embed_calls |-> 1]
    ELSE [results |-> FilterPlaceholder([i \in DOMAIN hits |->
                                            [doc |-> store[hits[i]], score |-> i]]),
          embed_calls |-> 1]

\* search_documents(query, k): the list returned and the embedding calls made.
\* hits is the order the store answers with, raises whether the store raises.
\* The score of a hit is its rank among the distances (smallest first).
Search(meta, store, query, k, hits, raises) ==
    IF Len(meta) = 0 THEN [results |-> <<>>, embed_calls |-> 0]
    ELSE IF raises THEN [results |-> <<>>, embed_calls |-> 1]
    ELSE [results |-> FilterPlaceholder([i \in DOMAIN hits |->
                                            [doc |-> store[hits[i]], score |-> i]]),
          embed_calls |-> 1]

search_documents(query, k, hits, raises) ==
    LET r == Search(metadata, vector_store, query, k, hits, raises)
    IN /\ ret' = [op |-> "search_documents", args |-> [k |-> k], hits |-> hits,
                  value |-> r.results, embed_calls |-> r.embed_calls, llm_calls |-> 0]
       /\ UNCHANGED <<files, metadata, vector_store, diskMetadata, diskIndex,
                      uuidCount, chat_history, deleted, exchanges, pending>>
       /\ UNCHANGED appVars

(*************************** ComplianceChatbot ****************************)
NoInfoMessage == "I'm sorry, I couldn't find any relevant information in the compliance documents. Please consider uploading relevant PDFs if they're not already in our system."
ErrorMessage == "I'm sorry, I encountered an error while generating a response. Please try again later."

\* outcomes of model.generate_content(full_prompt).text: an answer, or an exception
LlmOutcomes == Answers \cup {"error"}

\* mutant: the cap keeps the oldest entries
CapHistory_KeepsOldest(h) ==
    IF Len(h) > HistoryCap THEN SubSeq(h, 1, HistoryCap) ELSE h

\* self.chat_history[-20:] once it is longer than 20
CapHistory(h) ==
    IF Len(h) > HistoryCap THEN SubSeq(h, Len(h) - HistoryCap + 1, Len(h)) ELSE h

\* mutant: the sources are listed last result first
SourcesOf_Reversed(results) ==
    [i \in DOMAIN results |->
        [source |-> results[Len(results) + 1 - i].doc.source,
         score |-> results[Len(results) + 1 - i].score,
         doc_id |-> results[Len(results) + 1 - i].doc.doc_id]]

\* the sources list built from the search results
SourcesOf(results) ==
    [i \in DOMAIN results |->
        [source |-> results[i].doc.source, score |-> results[i].score,
         doc_id |-> results[i].doc.doc_id]]

\* mutant: a failed call of the remote model is recorded as an exchange
Respond_ErrorAnswered(results, llm) ==
    IF results = <<>>
    THEN [value |-> NoInfoMessage, sources |-> <<>>, llm_calls |-> 0, answered |-> FALSE]
    ELSE IF llm = "error"
    THEN [value |-> ErrorMessage, sources |-> <<>>, llm_calls |-> 1, answered |-> TRUE]
    ELSE [value |-> llm, sources |-> SourcesOf(results), llm_calls |-> 1,
          answered |-> TRUE]

\* mutant: the remote model is asked even when the search found nothing
Respond_AlwaysAsks(results, llm) ==
    IF llm = "error"
    THEN [value |-> ErrorMessage, sources |-> <<>>, llm_calls |-> 1, answered |-> FALSE]
    ELSE [value |-> llm, sources |-> SourcesOf(results), llm_calls |-> 1,
          answered |-> TRUE]

\* generate_response after the search: the message and sources returned, the calls
\* made to the remote model, and whether the exchange was answered
Respond(results, llm) ==
    IF results = <<>>
    THEN [value |-> NoInfoMessage, sources |-> <<>>, llm_calls |-> 0, answered |-> FALSE]
    ELSE IF llm = "error"
    THEN [value |-> ErrorMessage, sources |-> <<>>, llm_calls |-> 1, answered |-> FALSE]
    ELSE [value |-> llm, sources |-> SourcesOf(results), llm_calls |-> 1,
          answered |-> TRUE]

\* generate_response(query, k); llm: what the remote model did when it was called
generate_response(query, k, hits, raises, llm) ==
    LET r == Search(metadata, vector_store, query, k, hits, raises)
        a == Respond(r.results, llm)
    IN /\ ret' = [op |-> "generate_response", args |-> [query |-> query, k |-> k],
                  search_results |-> r.results, value |-> a.value, sources |-> a.sources,
                  embed_calls |-> r.embed_calls, llm_calls |-> a.llm_calls,
                  llm |-> IF a.llm_calls = 1 THEN llm ELSE "none"]
       /\ chat_history' =
            IF a.answered
            THEN CapHistory(chat_history \o << [role |-> "user", content |-> query],
                                               [role |-> "assistant", content |-> llm] >>)
            ELSE chat_history
       /\ exchanges' = IF a.answered
                       THEN Append(exchanges, [query |-> query, answer |-> llm])
                       ELSE exchanges
       /\ UNCHANGED <<files, metadata, vector_store, diskMetadata, diskIndex, uuidCount,
                      deleted, pending>>
       /\ UNCHANGED appVars

\* reset_chat_history()
reset_chat_history ==
    /\ chat_history' = <<>>
    /\ exchanges' = <<>>
    /\ ret' = [op |-> "reset_chat_history"]
    /\ UNCHANGED <<files, metadata, vector_store, diskMetadata, diskIndex, uuidCount,
                   deleted, pending>>
    /\ UNCHANGED appVars

(*************************** specifications *******************************)
\* the calls on the DocumentProcessor, with uploads drawn from the given inputs
ProcessorNext(filenames, pdfs, faults) ==
    \/ \E filename \in filenames, pdf \in pdfs, fault \in faults :
          process_pdf(filename, pdf, fault)
    \/ rebuild_vector_store
    \/ \E doc_id \in {Uuid(n) : n \in 1..MaxUploads} \cup {PLACEHOLDER} :
          delete_document(doc_id)
    \/ \E metaOk \in BOOLEAN, indexOk \in BOOLEAN : construct(metaOk, indexOk)

\* the DocumentProcessor under every upload, fault and search
Next ==
    \/ ProcessorNext(Filenames, Pdfs, Faults)
    \/ \E query \in Queries, k \in Ks :
          \E o \in StoreOutcomes(Len(vector_store), k) :
             search_documents(query, k, o.hits, o.raises)

Spec == Init /\ [][Next]_vars

\* the DocumentProcessor when nothing fails but the PDFs themselves
ReliableNext ==
    \/ ProcessorNext(Filenames, Pdfs, {"none"})
    \/ \E query \in Queries, k \in Ks :
          \E o \in StoreOutcomes(Len(vector_store), k) :
             search_documents(query, k, o.hits, o.raises)

SpecReliable == Init /\ [][ReliableNext]_vars

\* the ComplianceChatbot over a DocumentProcessor that is fed readable PDFs
ChatNext ==
    \/ ProcessorNext(ChatFilenames, ChatPdfs, {"none"})
    \/ \E query \in ChatQueries, k \in Ks, llm \in LlmOutcomes :
          \E o \in StoreOutcomes(Len(vector_store), k) :
             /\ generate_response(query, k, o.hits, o.raises, llm)
             /\ Len(chat_history') <= 2 * MaxExchanges
    \/ reset_chat_history

SpecChat == Init /\ [][ChatNext]_vars

\* the DocumentProcessor while PDFs get lost from pdf_dir
FilesNext ==
    \/ ProcessorNext(Filenames, Pdfs, Faults)
    \/ \E filename \in DOMAIN files : unlink(filename)

SpecFiles == Init /\ [][FilesNext]_vars

\* two sessions on the shared DocumentProcessor: uploads in two steps, with rebuilds
\* and deletions of the other session in between
RaceFilenames == {<<>>, <<"a", ".pdf">>}
RacePdfs == {pdf \in Pdfs : pdf.name \in {"scan", "memo", "policy"}}

RaceNext ==
    \/ \E filename \in RaceFilenames, pdf \in RacePdfs : process_pdf_add(filename, pdf)
    \/ process_pdf_commit
    \/ rebuild_vector_store
    \/ \E doc_id \in {Uuid(n) : n \in 1..MaxUploads} : delete_document(doc_id)

SpecRace == Init /\ [][RaceNext]_vars

\* the embedding gateway alone: every list of texts, every place the remote call can
\* fail at
EmbedNext ==
    \/ \E texts \in TextLists, fail_at \in 0..MaxTexts :
          /\ fail_at <= Len(texts)
          /\ embed_documents(texts, fail_at)
    \/ \E text \in EmbedTexts, fails \in BOOLEAN : embed_query(text, fails)

SpecEmbed == Init /\ [][EmbedNext]_vars

\* the DocumentProcessor fed a document of three chunks
ManualNext == ProcessorNext(ManualFilenames, ManualPdfs, {"none"})

SpecManual == Init /\ [][ManualNext]_vars

\* a long dialogue: one question after another, each looking up one chunk (k = 1), over
\* a DocumentProcessor that is fed one readable PDF at a time
DialoguePdfs == {pdf \in Pdfs : pdf.name = "memo"}
DialogueKs == {1}

DialogueNext ==
    \/ \E filename \in ChatFilenames, pdf \in DialoguePdfs : process_pdf(filename, pdf, "none")
    \/ \E query \in ChatQueries, k \in DialogueKs, llm \in LlmOutcomes :
          \E o \in StoreOutcomes(Len(vector_store), k) :
             /\ generate_response(query, k, o.hits, o.raises, llm)
             /\ Len(exchanges') <= MaxAnswered
    \/ reset_chat_history

SpecDialogue == Init /\ [][DialogueNext]_vars

\* the users table alone: registrations, deletions and changes of the admin flag,
\* one call at a time, for any id (present or not)
UsersNext ==
    \/ \E username \in Usernames, password \in Passwords, is_admin \in BOOLEAN,
          fault \in DbFaults :
          register_user(username, password, is_admin, fault)
    \/ \E user_id \in 1..MaxUsers, fault \in DbFaults : delete_user(user_id, fault)
    \/ \E user_id \in 1..MaxUsers, is_admin \in BOOLEAN, fault \in DbFaults :
          update_user_admin_status(user_id, is_admin, fault)

SpecUsers == Init /\ [][UsersNext]_vars

\* one browser session: login, logout and navigation, while the users table changes
\* under it (registrations, deletions and role changes made in any session)
AppNext ==
    \/ \E username \in LoginUsernames, password \in LoginPasswords,
          fault \in LoginFaults : login(username, password, fault)
    \/ logout
    \/ nav_chat
    \/ nav_docs
    \/ nav_users
    \/ \E username \in Usernames, password \in Passwords, is_admin \in BOOLEAN :
          register_user(username, password, is_admin, "none")
    \/ \E user_id \in 1..MaxUsers : delete_user(user_id, "none")
    \/ \E user_id \in 1..MaxUsers, is_admin \in BOOLEAN :
          update_user_admin_status(user_id, is_admin, "none")

SpecApp == Init /\ [][AppNext]_vars

(*************************** properties ***********************************)
\* number of entries of a store other than the placeholder
Populated(store) ==
    Cardinality({i \in 1..Len(store) : store[i].doc_id # PLACEHOLDER})

\* number of entries of a store that carry doc_id
EntriesOf(store, doc_id) ==
    Cardinality({i \in 1..Len(store) : store[i].doc_id = doc_id})

RECURSIVE SumChunkCounts(_)
SumChunkCounts(meta) ==
    IF meta = <<>> THEN 0 ELSE Head(meta).chunk_count + SumChunkCounts(Tail(meta))

\* C1: in every reachable state the number of non-placeholder entries of the index
\* equals the sum of chunk_count over the documents of the metadata store.
C1_PopulatedEqualsChunkCounts ==
    Populated(vector_store) = SumChunkCounts(metadata)

\* C2: after delete_document returned True for a document with file name F, and with
\* no process_pdf call since, no search_documents with k >= 1 returns a result whose
\* source is F.
C2_DeletedNeverReturned ==
    (ret.op = "search_documents" /\ ret.args.k >= 1)
        => \A i \in DOMAIN ret.value : ret.value[i].doc.source \notin deleted

\* a search that returned chunks after a document was deleted
C2_Witness ==
    /\ ret.op = "search_documents"
    /\ ret.args.k >= 1
    /\ deleted # {}
    /\ ret.value # <<>>

\* C3: no element of the list returned by search_documents has doc_id 'placeholder'.
C3_NoPlaceholderReturned ==
    ret.op = "search_documents"
        => \A i \in DOMAIN ret.value : ret.value[i].doc.doc_id # PLACEHOLDER

\* a search in which the store ranked the placeholder first and a chunk second
C3_Witness ==
    /\ ret.op = "search_documents"
    /\ Len(ret.hits) = 2
    /\ vector_store[ret.hits[1]].doc_id = PLACEHOLDER
    /\ Len(ret.value) = 1

\* C4: with zero documents in the metadata store, search_documents returns the empty
\* list and calls neither the embedding gateway nor the LLM gateway.
C4_EmptyStoreNoGatewayCall ==
    (ret.op = "search_documents" /\ Len(metadata) = 0)
        => (ret.value = <<>> /\ ret.embed_calls = 0 /\ ret.llm_calls = 0)

\* a search with k >= 1 over no documents while the index still holds chunks
C4_Witness ==
    /\ ret.op = "search_documents"
    /\ ret.args.k >= 1
    /\ Len(metadata) = 0
    /\ Populated(vector_store) > 0

\* C5: when the search returns the empty list, generate_response returns the fixed
\* no-relevant-information message with an empty source list and calls no LLM.
C5_NoResultsNoLlmCall ==
    (ret.op = "generate_response" /\ ret.search_results = <<>>)
        => (ret.value = NoInfoMessage /\ ret.sources = <<>> /\ ret.llm_calls = 0)

\* generate_response over a populated index whose search came back empty
C5_Witness ==
    /\ ret.op = "generate_response"
    /\ ret.search_results = <<>>
    /\ ret.args.k >= 1
    /\ Populated(vector_store) > 0
    /\ Len(metadata) > 0

\* the doc_ids carried by the entries of a store
StoreDocIds(store) == {store[i].doc_id : i \in 1..Len(store)}

\* C6: a successful process_pdf appends exactly one metadata entry, under a doc_id
\* that neither the metadata nor the index held before; its chunk_count is the number
\* of index entries with that doc_id, all of them inserted by the call; the earlier
\* metadata entries are unchanged.
C6_Step ==
    (ret'.op = "process_pdf" /\ ret'.value)
        => /\ Len(metadata') = Len(metadata) + 1
           /\ SubSeq(metadata', 1, Len(metadata)) = metadata
           /\ metadata'[Len(metadata')].doc_id = ret'.doc_id
           /\ ret'.doc_id \notin DocIds(metadata) \cup StoreDocIds(vector_store)
           /\ SubSeq(vector_store', 1, Len(vector_store)) = vector_store
           /\ Len(vector_store') - Len(vector_store) = EntriesOf(vector_store', ret'.doc_id)
           /\ metadata'[Len(metadata')].chunk_count = EntriesOf(vector_store', ret'.doc_id)

C6_SuccessfulIngest == [][C6_Step]_vars

\* a second successful upload, of a document of two chunks
C6_Witness ==
    /\ ret.op = "process_pdf"
    /\ ret.value
    /\ Len(metadata) = 2
    /\ metadata[2].doc_id = ret.doc_id
    /\ metadata[2].chunk_count = 2
    /\ EntriesOf(vector_store, ret.doc_id) = 2

\* C7: when the extracted text is empty or whitespace-only, process_pdf returns False
\* and changes neither the metadata store nor the vector index (in memory or on
\* disk); of the files, only the one it saves the upload under may change.
C7_Step ==
    (ret'.op = "process_pdf" /\ ret'.args.pdf.readable
       /\ (ret'.args.pdf.len = 0 \/ ret'.args.pdf.blank))
        => /\ ret'.value = FALSE
           /\ UNCHANGED <<metadata, vector_store, diskMetadata, diskIndex, chat_history>>
           /\ \A f \in (DOMAIN files \cup DOMAIN files') \ {ret'.args.filename} :
                 f \in DOMAIN files /\ f \in DOMAIN files' /\ files'[f] = files[f]

C7_BlankTextRejected == [][C7_Step]_vars

\* a whitespace-only upload was saved over the file of an indexed document
C7_Witness ==
    /\ ret.op = "process_pdf"
    /\ ret.args.pdf.readable /\ ret.args.pdf.blank /\ ret.args.pdf.len > 0
    /\ ret.args.filename \in DOMAIN files
    /\ files[ret.args.filename] = ret.args.pdf
    /\ \E i \in 1..Len(metadata) : metadata[i].filename = ret.args.filename
    /\ Populated(vector_store) > 0

\* C8: a _rebuild_vector_store call that directly follows another one leaves every
\* chunk_count and the index (so also its multiset of (doc_id, chunk) entries) as
\* the first call left them.
C8_Step ==
    (ret.op = "rebuild" /\ ret'.op = "rebuild")
        => (metadata' = metadata /\ vector_store' = vector_store
            /\ diskMetadata' = diskMetadata /\ diskIndex' = diskIndex)

C8_RebuildIdempotent == [][C8_Step]_vars

\* a second rebuild in a row, over two documents of one file
C8_Witness ==
    /\ ret.op = "rebuild"
    /\ ret.repeated
    /\ Len(metadata) = 2
    /\ metadata[1].filename = metadata[2].filename
    /\ Populated(vector_store) > 0

\* C9: delete_document with a doc_id that is no key of the metadata store returns
\* False and leaves the metadata store, the vector index and the files unchanged.
C9_Step ==
    (ret'.op = "delete_document" /\ ret'.args.doc_id \notin DocIds(metadata))
        => /\ ret'.value = FALSE
           /\ UNCHANGED <<metadata, vector_store, files, diskMetadata, diskIndex>>

C9_UnknownDelete == [][C9_Step]_vars

\* delete of an unknown id in a state that a rebuild would have changed
C9_Witness ==
    /\ ret.op = "delete_document"
    /\ ret.value = FALSE
    /\ Len(metadata) > 0
    /\ Rebuilt(metadata, files).store # vector_store

\* the usable file of a metadata entry: it exists, is readable and has text
Usable(fs, d) ==
    d.filename \in DOMAIN fs /\ fs[d.filename].readable /\ ~IsBlank(fs[d.filename])

\* C10: delete_document with a known doc_id returns True; afterwards the doc_id is
\* not listed, the document's file is absent, every other entry is kept, and the
\* index holds the placeholder and chunks of remaining documents only, one per chunk
\* of each remaining document with a usable file.
C10_Step ==
    (ret'.op = "delete_document" /\ ret'.args.doc_id \in DocIds(metadata))
        => /\ ret'.value = TRUE
           /\ DocIds(metadata') = DocIds(metadata) \ {ret'.args.doc_id}
           /\ ret'.filename \notin DOMAIN files'
           /\ \A f \in DOMAIN files \ {ret'.filename} :
                 f \in DOMAIN files' /\ files'[f] = files[f]
           /\ vector_store'[1] = PlaceholderEntry
           /\ StoreDocIds(vector_store') \subseteq DocIds(metadata') \cup {PLACEHOLDER}
           /\ \A i \in 1..Len(metadata') :
                 EntriesOf(vector_store', metadata'[i].doc_id) =
                    IF Usable(files', metadata'[i])
                    THEN Len(split_text(files'[metadata'[i].filename]))
                    ELSE 0

C10_KnownDelete == [][C10_Step]_vars

\* a delete that succeeded although the document's file was already gone
C10_Witness ==
    /\ ret.op = "delete_document"
    /\ ret.value
    /\ ~ret.file_existed

\* C11: when the call of the remote model fails, generate_response returns the fixed
\* failure message with an empty source list (it raises nothing) and leaves
\* chat_history, and everything else, as it was.
C11_Step ==
    (ret'.op = "generate_response" /\ ret'.llm = "error")
        => /\ ret'.value = ErrorMessage
           /\ ret'.sources = <<>>
           /\ chat_history' = chat_history
           /\ UNCHANGED <<files, metadata, vector_store, diskMetadata, diskIndex>>

C11_LlmFailure == [][C11_Step]_vars

\* the remote model failed on a query whose search found chunks, after an answered
\* exchange
C11_Witness ==
    /\ ret.op = "generate_response"
    /\ ret.llm = "error"
    /\ ret.search_results # <<>>
    /\ ret.llm_calls = 1
    /\ Len(chat_history) = 2

\* C12: the source list of an answered generate_response has one entry per search
\* result, in the ranked order of the results, each carrying its result's source file
\* name, score and doc_id, whatever the text of the answer.
C12_SourcesMirrorResults ==
    (ret.op = "generate_response" /\ ret.llm \in Answers)
        => /\ Len(ret.sources) = Len(ret.search_results)
           /\ \A i \in 1..Len(ret.search_results) :
                 /\ ret.sources[i].source = ret.search_results[i].doc.source
                 /\ ret.sources[i].score = ret.search_results[i].score
                 /\ ret.sources[i].doc_id = ret.search_results[i].doc.doc_id
           /\ \A a \in Answers : Respond(ret.search_results, a).sources = ret.sources

\* an answer built on two chunks of two different documents
C12_Witness ==
    /\ ret.op = "generate_response"
    /\ ret.llm \in Answers
    /\ ret.value = ret.llm
    /\ Len(ret.sources) = 2
    /\ ret.sources[1].doc_id # ret.sources[2].doc_id
    /\ ret.sources[1].source # ret.sources[2].source

\* the last n elements of a sequence
LastN(seq, n) == SubSeq(seq, Len(seq) - n + 1, Len(seq))

\* C13: after any sequence of generate_response and reset_chat_history calls,
\* chat_history holds at most 20 entries: the query and the answer of each of the most
\* recent (at most 10) answered exchanges, oldest first; after a reset it is empty.
C13_RecentExchanges ==
    LET n == Min(HistoryCap \div 2, Len(exchanges))
        recent == LastN(exchanges, n)
    IN /\ Len(chat_history) <= HistoryCap
       /\ Len(chat_history) = 2 * n
       /\ \A j \in 1..n :
             /\ chat_history[2 * j - 1] = [role |-> "user", content |-> recent[j].query]
             /\ chat_history[2 * j] = [role |-> "assistant", content |-> recent[j].answer]
       /\ ret.op = "reset_chat_history" => chat_history = <<>>

\* the eleventh answered exchange pushed the first, which had another answer, out
C13_Witness ==
    /\ ret.op = "generate_response"
    /\ Len(exchanges) = 11
    /\ Len(chat_history) = HistoryCap
    /\ exchanges[1].answer # exchanges[2].answer
    /\ chat_history[2].content = exchanges[2].answer

\* C14 as stated: a text of exactly 2500 characters is ingested as 3 chunks
\* (chunk_count = 3), none longer than 1000 characters; once that document is deleted,
\* get_all_documents() has no entry with its id.
C14_Original_Step ==
    /\ (ret'.op = "process_pdf" /\ ret'.value /\ ret'.args.pdf.len = 2500)
          => /\ metadata'[Len(metadata')].doc_id = ret'.doc_id
             /\ metadata'[Len(metadata')].chunk_count = 3
             /\ \A i \in 1..Len(vector_store') :
                   vector_store'[i].doc_id = ret'.doc_id
                      => vector_store'[i].chunk.hi - vector_store'[i].chunk.lo <= chunk_size
    /\ (ret'.op = "delete_document" /\ ret'.value)
          => ret'.args.doc_id \notin DocIds(get_all_documents(metadata'))

C14_Step ==
    /\ (ret'.op = "process_pdf" /\ ret'.value /\ ret'.args.pdf.len = 2500)
          => /\ metadata'[Len(metadata')].doc_id = ret'.doc_id
             /\ metadata'[Len(metadata')].chunk_count >= 3
             /\ Len(Pieces(ret'.args.pdf)) = 1
                   => metadata'[Len(metadata')].chunk_count = 3
             /\ EntriesOf(vector_store', ret'.doc_id)
                   = metadata'[Len(metadata')].chunk_count
             /\ \A i \in 1..Len(vector_store') :
                   vector_store'[i].doc_id = ret'.doc_id
                      => vector_store'[i].chunk.hi - vector_store'[i].chunk.lo <= chunk_size
    /\ (ret'.op = "delete_document" /\ ret'.value)
          => ret'.args.doc_id \notin DocIds(get_all_documents(metadata'))

IsZeroVector(v) == Len(v) = 768 /\ \A i \in 1..Len(v) : v[i] = 0

\* C15: embed_documents(texts) returns (it never raises) exactly len(texts) vectors and
\* embed_query returns one; when a remote embedding call fails, every vector returned
\* is the all-zero vector of length 768.
C15_EmbeddingFallback ==
    /\ ret.op = "embed_documents"
          => /\ Len(ret.value) = Len(ret.args.texts)
             /\ ret.failed => \A i \in 1..Len(ret.value) : IsZeroVector(ret.value[i])
             /\ ~ret.failed
                   => \A i \in 1..Len(ret.value) :
                         ret.value[i] = RemoteEmbedding(ret.args.texts[i])
    /\ ret.op = "embed_query"
          => /\ ret.failed => IsZeroVector(ret.value)
             /\ ~ret.failed => ret.value = RemoteEmbedding(ret.args.text)

\* the remote call failed on the last of three texts, after two were embedded
C15_Witness ==
    /\ ret.op = "embed_documents"
    /\ Len(ret.args.texts) = 3
    /\ ret.failed
    /\ ret.calls = 3
    /\ Len(ret.value) = 3
    /\ IsZeroVector(ret.value[1])

\* C16: whenever DocumentProcessor is constructed and the number of non-placeholder
\* entries of the loaded index differs from the sum of chunk_count over the loaded
\* metadata, _rebuild_vector_store is run before the constructor returns.
C16_MismatchForcesRebuild ==
    (ret.op = "init"
       /\ Populated(ret.loaded.store) # SumChunkCounts(ret.loaded.meta))
        => ret.rebuilt

\* C17 as stated: in a rebuild, a document whose file is missing or cannot be read is
\* skipped (its metadata entry is kept as it was and the new index has none of its
\* chunks), and every other document with a readable file is re-inserted with
\* chunk_count set to the number of chunks inserted.
C17_Original_Step ==
    ret'.op = "rebuild"
        => /\ Len(metadata') = Len(metadata)
           /\ \A i \in 1..Len(metadata) :
                 IF metadata[i].filename \notin DOMAIN files
                    \/ ~files[metadata[i].filename].readable
                 THEN /\ metadata'[i] = metadata[i]
                      /\ EntriesOf(vector_store', metadata[i].doc_id) = 0
                 ELSE /\ metadata'[i].doc_id = metadata[i].doc_id
                      /\ metadata'[i].filename = metadata[i].filename
                      /\ metadata'[i].chunk_count
                            = EntriesOf(vector_store', metadata[i].doc_id)

C17_Step ==
    ret'.op = "rebuild"
        => /\ Len(metadata') = Len(metadata)
           /\ \A i \in 1..Len(metadata) :
                 IF Usable(files, metadata[i])
                 THEN /\ metadata'[i].doc_id = metadata[i].doc_id
                      /\ metadata'[i].filename = metadata[i].filename
                      /\ metadata'[i].chunk_count
                            = EntriesOf(vector_store', metadata[i].doc_id)
                      /\ EntriesOf(vector_store', metadata[i].doc_id)
                            = Len(split_text(files[metadata[i].filename]))
                 ELSE /\ metadata'[i] = metadata[i]
                      /\ EntriesOf(vector_store', metadata[i].doc_id) = 0

C18_InterleavedUploadLosesChunks ==
    (ret.op = "process_pdf" /\ ret.value /\ ret.overtaken)
        => /\ ret.doc_id \in DocIds(metadata)
           /\ metadata[IndexOf(metadata, ret.doc_id)].chunk_count > 0
           /\ EntriesOf(vector_store, ret.doc_id) = 0
           /\ EntriesOf(diskIndex, ret.doc_id) = 0

\* an upload whose two steps had the delete of another document between them
C18_Witness ==
    /\ ret.op = "process_pdf"
    /\ ret.value
    /\ ret.overtaken
    /\ Len(metadata) = 1
    /\ metadata[1].doc_id = ret.doc_id
    /\ metadata[1].chunk_count = 2
    /\ EntriesOf(vector_store, ret.doc_id) = 0
    /\ deleted # {}

\* C19: in every state reachable after construction the vector index, in memory and as
\* saved, contains the placeholder entry.
C19_PlaceholderKept ==
    /\ \E i \in 1..Len(vector_store) : vector_store[i] = PlaceholderEntry
    /\ \E i \in 1..Len(diskIndex) : diskIndex[i] = PlaceholderEntry

\* an index of placeholder and chunks, left by the rebuild of a restart
C19_Witness ==
    /\ ret.op = "init"
    /\ ret.rebuilt
    /\ Populated(vector_store) > 0
    /\ EntriesOf(vector_store, PLACEHOLDER) = 1

\* C20: in every state reachable by process_pdf (also by calls that fail after the
\* chunks were added), delete_document and _rebuild_vector_store, every
\* non-placeholder entry of the index carries a doc_id that is a key of the metadata
\* store.
C20_EntriesHaveDocuments ==
    StoreDocIds(vector_store) \subseteq DocIds(metadata) \cup {PLACEHOLDER}

\* C21: delete_document(d) affects document d only: every other document e that stays
\* in the metadata store keeps its PDF file on disk and its chunks in the index, also
\* when d and e were ingested under one file name.
C21_Step ==
    (ret'.op = "delete_document" /\ ret'.value)
        => \A i \in 1..Len(metadata) :
              metadata[i].doc_id # ret'.args.doc_id
                 => /\ metadata[i].doc_id \in DocIds(metadata')
                    /\ metadata[i].filename \in DOMAIN files
                          => metadata[i].filename \in DOMAIN files'
                    /\ EntriesOf(vector_store', metadata[i].doc_id)
                          = EntriesOf(vector_store, metadata[i].doc_id)

C21_DeleteAffectsOnlyD == [][C21_Step]_vars

\* user_id is the only admin of the table
LastAdmin(tbl, user_id) ==
    user_id \in DOMAIN tbl /\ tbl[user_id].is_admin /\ AdminCount(tbl) = 1

\* C22: the users table always holds at least one row with is_admin = TRUE, and a
\* delete_user or update_user_admin_status call that would remove or demote the only
\* admin returns False and leaves the table as it was.
C22_Step ==
    /\ (ret'.op = "delete_user" /\ LastAdmin(users, ret'.args.user_id))
          => (~ret'.value /\ users' = users)
    /\ (ret'.op = "update_user_admin_status" /\ ~ret'.args.is_admin
          /\ LastAdmin(users, ret'.args.user_id))
          => (~ret'.value /\ users' = users)

C22_LastAdminKept == [](AdminCount(users) >= 1) /\ [][C22_Step]_vars

\* the only admin, a user registered later, was refused its deletion after the
\* initial admin had been deleted
C22_Witness ==
    /\ ret.op = "delete_user"
    /\ ret.message = "Cannot delete the last admin user"
    /\ ret.args.user_id # 1
    /\ 1 \notin DOMAIN users
    /\ Cardinality(DOMAIN users) >= 2

\* C23: the document-management and user-management pages are drawn only for a session
\* whose user is set with is_admin true; current_tab is "chat", "documents" or "users"
\* only while the session has a user; Logout leaves user = None and current_tab = "login".
C23_SessionInv ==
    /\ session.page \in {"documents", "users"} => SessionAdmin(session)
    /\ session.current_tab \in {"chat", "documents", "users"} => session.user # NoUser

C23_Step ==
    ret'.op = "logout" => (session'.user = NoUser /\ session'.current_tab = "login")

C23_SessionSafety == []C23_SessionInv /\ [][C23_Step]_vars

\* the user-management page drawn for a session that logged in as an admin, whose row
\* in the users table has lost the flag since
C23_Witness ==
    /\ ret.op = "nav_users"
    /\ session.page = "users"
    /\ session.user.id \in DOMAIN users
    /\ ~users[session.user.id].is_admin

=============================================================================
